---- MODULE Spec2Model ----
(***************************************************************************)
(* A model of the AR furniture previewer's cross-boundary session          *)
(* protocol: the ARWebViewBridge (envelopes, correlated requests, timers,  *)
(* handler sets and their dispatch), the AR and scene stores, and the      *)
(* AsyncStorage index helpers.                                             *)
(***************************************************************************)
EXTENDS Integers, Sequences, FiniteSets, TLC

(***************************************************************************)
(* Bounds of the model.                                                    *)
(***************************************************************************)
MaxReqs == 2        \* sendAndWait calls made in one behaviour
MaxMsgs == 3        \* envelopes created in one behaviour (messageCounter)
MaxInbound == 2     \* inbound messages handed to handleMessage
MaxGen == 1         \* Set objects created per message type by on()
MaxClock == 1       \* values Date.now() takes: 0..MaxClock
MaxCalls == 4       \* calls the application makes to the bridge in one behaviour

\* engine -> native message types (two of WebViewToRNMessageType)
InTypes == {"MODEL_PLACED", "SCENE_CAPTURED"}
\* native -> engine message types (two of RNToWebViewMessageType)
OutTypes == {"LOAD_MODEL", "CAPTURE_SCENE"}
\* handler functions the application registers
UserHandlers == {<<"u", 1>>, <<"u", 2>>}
\* the one-time handler closure sendAndWait creates for request r
OnceHandler(r) == <<"r", r>>
NoHandler == <<"none", 0>>
IsOnce(h) == h[1] = "r"
AllHandlers == UserHandlers \cup {OnceHandler(r) : r \in 1..MaxReqs}
AllScopes == InTypes \cup {"global"}

VARIABLES
    webViewRef,       \* "null" | "refNull" (ref.current = null) | "refView"
    isReady,          \* ARWebViewBridge.isReady
    handlers,         \* Map type -> Set of handlers (insertion ordered)
    globalHandlers,   \* Set of any-type handlers (insertion ordered)
    pendingRequests,  \* Map messageId -> PendingRequest, as a set of [id, req]
    timers,           \* requests whose setTimeout timer is armed
    messageCounter,   \* module-level counter of generateMessageId
    now,              \* Date.now()
    outbox,           \* envelopes injected into the WebView, in order
    reqs,             \* the promises sendAndWait returned, with their settle calls
    disp,             \* the handleMessage call in progress (forEach position)
    modelStore,       \* useModelStore: models and selectedModelId
    inSerial,         \* number of well-formed inbound messages dispatched so far
    invoked,          \* handlers invoked for the current (or last) message
    dlog,             \* the current (or last) handleMessage call: what it was
                      \* given, who was subscribed when it was called, whether
                      \* a handler changed the subscriptions or threw
    subs,             \* per Set scope, the number of entries on() / onAny() have
                      \* added, and for each handler the number its latest
                      \* addition got
    sendWarnings,     \* the states of webViewRef in which send() logged
                      \* 'WebView not attached' and returned
    calls,            \* number of calls the application has made to the bridge
    removed,          \* memberships <<h, scope, gen, w>> removed by an unsubscribe;
                      \* w is the serial of the message whose dispatch h was
                      \* still waiting in, 0 if it was not waiting in any
    ar,               \* state of useARStore
    scene,            \* state of useSceneStore
    issuedIds,        \* number of PlacedObjects the application has created
    lastQuery,        \* the last store query (or observed call) and its outcome
    storage,          \* AsyncStorage: key -> stored JSON text
    defaults,         \* the DEFAULT_*_INDEX module objects (mutable)
    procs             \* calls of the async index helpers, finished or in flight

bridgeVars == <<webViewRef, isReady, handlers, globalHandlers, pendingRequests,
                timers, messageCounter, now, outbox, reqs, disp, inSerial,
                invoked, dlog, removed, subs, sendWarnings, calls>>
storeVars == <<ar, scene, modelStore, issuedIds, lastQuery>>
storageVars == <<storage, defaults, procs>>

(***************************************************************************)
(* Insertion-ordered sets (JavaScript Set) as duplicate-free sequences.    *)
(***************************************************************************)
Has(s, x) == \E i \in 1..Len(s) : s[i] = x
IndexOf(s, x) == IF Has(s, x) THEN CHOOSE i \in 1..Len(s) : s[i] = x ELSE 0
Without(s, x) == SelectSeq(s, LAMBDA y : y /= x)
\* a Set that puts a new entry first
SetAdd_Prepend(s, x) == IF Has(s, x) THEN s ELSE <<x>> \o s
SetAdd(s, x) == IF Has(s, x) THEN s ELSE Append(s, x)

(***************************************************************************)
(* The bridge state as one record, so that an operation called from inside *)
(* a handler composes with the dispatch step that invoked the handler.     *)
(***************************************************************************)
St == [ref |-> webViewRef, isReady |-> isReady, handlers |-> handlers,
       globals |-> globalHandlers, pending |-> pendingRequests,
       timers |-> timers, counter |-> messageCounter, now |-> now,
       outbox |-> outbox, reqs |-> reqs, disp |-> disp,
       inSerial |-> inSerial, invoked |-> invoked, dlog |-> dlog,
       removed |-> removed, subs |-> subs, sendWarnings |-> sendWarnings,
       calls |-> calls]

Apply(S) ==
    /\ webViewRef' = S.ref
    /\ isReady' = S.isReady
    /\ handlers' = S.handlers
    /\ globalHandlers' = S.globals
    /\ pendingRequests' = S.pending
    /\ timers' = S.timers
    /\ messageCounter' = S.counter
    /\ now' = S.now
    /\ outbox' = S.outbox
    /\ reqs' = S.reqs
    /\ disp' = S.disp
    /\ inSerial' = S.inSerial
    /\ invoked' = S.invoked
    /\ dlog' = S.dlog
    /\ subs' = S.subs
    /\ sendWarnings' = S.sendWarnings
    /\ removed' = S.removed
    /\ calls' = S.calls
    /\ UNCHANGED <<storeVars, storageVars>>

NoDisp == [active |-> FALSE, phase |-> "idle", mtype |-> "none", pos |-> 0,
           gen |-> 0, isDet |-> FALSE, det |-> <<>>]
NoCall == [kind |-> "none", mtype |-> "none", globals |-> <<>>, typed |-> <<>>,
           waiting |-> {}, mutated |-> FALSE, thrown |-> FALSE]
NoSubs == [count |-> [sc \in AllScopes |-> 0],
           stamp |-> [sc \in AllScopes |-> [h \in AllHandlers |-> 0]]]
NoSet == [live |-> FALSE, gen |-> 0, seq |-> <<>>]

\* a test of webViewRef alone, not of its current
Attached_IgnoresCurrent(S) == S.ref /= "null"

\* this.webViewRef?.current == null is false
Attached(S) == S.ref = "refView"

\* Map.get / Map.set / Map.delete on pendingRequests
MapHas(m, id) == \E p \in m : p.id = id
MapGet(m, id) == CHOOSE p \in m : p.id = id
MapDelete(m, id) == {p \in m : p.id /= id}
MapSet(m, id, r) == MapDelete(m, id) \cup {[id |-> id, req |-> r]}

\* a call of the promise's resolve or reject function; for a resolve, the
\* serial and the type of the message passed to it
Settled(kind, serial, mtype) == [kind |-> kind, serial |-> serial, mtype |-> mtype]
Settle(S, r, kind, serial, mtype) ==
    [S EXCEPT !.reqs[r].log = Append(@, Settled(kind, serial, mtype))]

(***************************************************************************)
(* The Set object a handler closure refers to is named by its scope        *)
(* ("global" or a message type) and, for a type, the generation of the Set *)
(* created for it: off() and removeAllHandlers() drop the Set from the Map *)
(* without emptying it, and the next on() creates a new one.               *)
(***************************************************************************)
IsIterating(S, scope, gen) ==
    /\ S.disp.active
    /\ \/ scope = "global" /\ S.disp.phase = "global"
       \/ scope /= "global" /\ S.disp.phase = "typed"
          /\ S.disp.mtype = scope /\ S.disp.gen = gen
IsLive(S, scope, gen) ==
    \/ scope = "global"
    \/ scope /= "global" /\ S.handlers[scope].live /\ S.handlers[scope].gen = gen
Content(S, scope, gen) ==
    IF scope = "global" THEN S.globals
    ELSE IF IsLive(S, scope, gen) THEN S.handlers[scope].seq
    ELSE IF IsIterating(S, scope, gen) /\ S.disp.isDet THEN S.disp.det
    ELSE <<>>
WriteContent(S, scope, gen, c) ==
    IF scope = "global" THEN [S EXCEPT !.globals = c]
    ELSE IF IsLive(S, scope, gen) THEN [S EXCEPT !.handlers[scope].seq = c]
    ELSE IF IsIterating(S, scope, gen) /\ S.disp.isDet THEN [S EXCEPT !.disp.det = c]
    ELSE S
\* the sequence the forEach in progress walks
IterSeq(S) ==
    IF S.disp.isDet THEN S.disp.det
    ELSE IF S.disp.phase = "global" THEN S.globals
    ELSE S.handlers[S.disp.mtype].seq
IterScope(S) == IF S.disp.phase = "global" THEN "global" ELSE S.disp.mtype


\* a Set whose forEach walks a copy taken when it is first changed: a
\* deleted entry the walk has not reached is still visited
SetDelete_Snapshot(S, scope, gen, h) ==
    LET c == Content(S, scope, gen)
        S0 == IF IsIterating(S, scope, gen) /\ ~S.disp.isDet
              THEN [S EXCEPT !.disp.isDet = TRUE, !.disp.det = c]
              ELSE S
    IN WriteContent(S0, scope, gen, Without(c, h))

(***************************************************************************)
(* Set.prototype.delete.  A forEach in progress over the same Set skips a  *)
(* deleted entry it has not reached yet; entries are compacted here, so    *)
(* deleting an entry already visited moves the position back by one.       *)
(***************************************************************************)
SetDelete(S, scope, gen, h) ==
    LET c == Content(S, scope, gen)
        i == IndexOf(c, h)
        S1 == WriteContent(S, scope, gen, Without(c, h))
    IN IF i = 0 THEN S
       ELSE IF IsIterating(S, scope, gen) /\ i <= S.disp.pos
            THEN [S1 EXCEPT !.disp.pos = @ - 1]
            ELSE S1

\* an id made of the clock reading alone
GenerateMessageId_ClockOnly(nowv, cnt) == <<nowv, 0>>

\* generateMessageId: `msg_${Date.now()}_${++messageCounter}`; cnt is the
\* counter after the increment.  The two numbers are separated by "_", so
\* the string determines the pair and the pair the string.
GenerateMessageId(nowv, cnt) == <<nowv, cnt>>

\* createMessage: the envelope of the next message (type and messageId).
CreateMessage(S, type) ==
    [type |-> type, messageId |-> GenerateMessageId(S.now, S.counter + 1)]

\* attach(ref)
AttachOp(S, ref) == [S EXCEPT !.ref = ref]

\* a detach() that rejects the outstanding requests and leaves the Map as
\* it is
DetachOp_KeepsPending(S) ==
    LET rs == {p.req : p \in S.pending}
    IN [S EXCEPT !.ref = "null",
                 !.isReady = FALSE,
                 !.timers = @ \ rs,
                 !.reqs = [r \in DOMAIN @ |->
                             IF r \in rs
                             THEN [@[r] EXCEPT !.log =
                                     Append(@, Settled("detached", 0, "none"))]
                             ELSE @[r]]]

\* detach()
DetachOp(S) ==
    LET rs == {p.req : p \in S.pending}
    IN [S EXCEPT !.ref = "null",
                 !.isReady = FALSE,
                 !.timers = @ \ rs,
                 !.reqs = [r \in DOMAIN @ |->
                             IF r \in rs
                             THEN [@[r] EXCEPT !.log =
                                     Append(@, Settled("detached", 0, "none"))]
                             ELSE @[r]],
                 !.pending = {}]

\* setReady(ready)
SetReadyOp(S, b) == [S EXCEPT !.isReady = b]

\* get ready(): this.isReady && this.webViewRef?.current !== null
\* (with webViewRef null the optional chain gives undefined, and
\* undefined !== null is true)
ReadyGetter(S) == S.isReady /\ S.ref /= "refNull"

\* send(type, payload) and the typed send methods, which only call it
SendOp(S, type) ==
    IF ~Attached(S)
    THEN [S EXCEPT !.sendWarnings = @ \cup {S.ref}]
    ELSE [S EXCEPT !.counter = @ + 1,
                   !.outbox = Append(@, CreateMessage(S, type))]

\* the subscription of h in the Set of scope is numbered when h is new to it
Numbered(S, scope, h, isNew) ==
    IF isNew
    THEN [S EXCEPT !.subs.count[scope] = @ + 1,
                   !.subs.stamp[scope][h] = S.subs.count[scope] + 1]
    ELSE S

\* on(type, handler), without the bookkeeping of the history variable
OnRaw(S, type, h) ==
    LET hs == S.handlers[type]
        S1 == Numbered(S, type, h, ~(hs.live /\ Has(hs.seq, h)))
    IN IF hs.live
       THEN [S1 EXCEPT !.handlers[type].seq = SetAdd(@, h)]
       ELSE [S1 EXCEPT !.handlers[type] =
                          [live |-> TRUE, gen |-> hs.gen + 1, seq |-> <<h>>]]

Resubscribed(rm, h, scope, gen) ==
    {x \in rm : ~(x.h = h /\ x.scope = scope /\ x.gen = gen)}

\* on(type, handler)
OnOp(S, type, h) ==
    LET S1 == OnRaw(S, type, h)
    IN [S1 EXCEPT !.removed = Resubscribed(@, h, type, S1.handlers[type].gen)]

\* onAny(handler)
OnAnyOp(S, h) ==
    [Numbered(S, "global", h, ~Has(S.globals, h))
        EXCEPT !.globals = SetAdd(@, h),
               !.removed = Resubscribed(@, h, "global", 0)]

\* the Unsubscribe closure that on() / onAny() returned for h in the Set
\* (scope, gen)
UnsubscribeOp(S, h, scope, gen) ==
    LET waiting == IsIterating(S, scope, gen) /\ IndexOf(IterSeq(S), h) > S.disp.pos
        S1 == SetDelete(S, scope, gen, h)
    IN [S1 EXCEPT !.removed = Resubscribed(@, h, scope, gen) \cup
                     {[h |-> h, scope |-> scope, gen |-> gen,
                       w |-> IF waiting THEN S.inSerial ELSE 0]}]

\* handlers.delete(type): the Set leaves the Map; a forEach over it goes on
DropSet(S, type) ==
    LET hs == S.handlers[type]
        S1 == IF hs.live /\ IsIterating(S, type, hs.gen) /\ ~S.disp.isDet
              THEN [S EXCEPT !.disp.isDet = TRUE, !.disp.det = hs.seq]
              ELSE S
    IN [S1 EXCEPT !.handlers[type] = [live |-> FALSE, gen |-> hs.gen, seq |-> <<>>]]

\* off(type)
OffOp(S, type) == DropSet(S, type)

\* removeAllHandlers(): handlers.clear() drops every Set from the Map,
\* globalHandlers.clear() empties the Set itself
RemoveAllHandlersOp(S) ==
    LET S1 == IF S.disp.active /\ S.disp.phase = "typed"
              THEN DropSet(S, S.disp.mtype) ELSE S
        S2 == [S1 EXCEPT !.handlers = [t \in InTypes |->
                              [live |-> FALSE, gen |-> @[t].gen, seq |-> <<>>]],
                         !.globals = <<>>]
    IN IF IsIterating(S, "global", 0) /\ ~S.disp.isDet
       THEN [S2 EXCEPT !.disp.pos = 0] ELSE S2

\* a timer callback that rejects without pendingRequests.delete
TimerFireOp_KeepsPending(S, r) ==
    Settle([S EXCEPT !.timers = @ \ {r}], r, "timeout", 0, "none")

\* the timer callback of sendAndWait for request r
TimerFireOp(S, r) ==
    LET S1 == [S EXCEPT !.timers = @ \ {r},
                        !.pending = MapDelete(@, S.reqs[r].id)]
    IN Settle(S1, r, "timeout", 0, "none")

\* a one-time handler without clearTimeout(pending.timeout)
OnceInvoke_KeepsTimer(S, r) ==
    LET id == S.reqs[r].id
    IN IF ~MapHas(S.pending, id)
       THEN S
       ELSE LET r2 == MapGet(S.pending, id).req
                S1 == [S EXCEPT !.pending = MapDelete(@, id)]
                S2 == Settle(S1, r2, "resolved", S.inSerial, S.disp.mtype)
            IN UnsubscribeOp(S2, OnceHandler(r), S.reqs[r].rtype, S.reqs[r].gen)

\* a one-time handler that empties the Map when it resolves its request
OnceInvoke_ClearsPending(S, r) ==
    LET id == S.reqs[r].id
    IN IF ~MapHas(S.pending, id)
       THEN S
       ELSE LET r2 == MapGet(S.pending, id).req
                S1 == [S EXCEPT !.timers = @ \ {r2}, !.pending = {}]
                S2 == Settle(S1, r2, "resolved", S.inSerial, S.disp.mtype)
            IN UnsubscribeOp(S2, OnceHandler(r), S.reqs[r].rtype, S.reqs[r].gen)

\* the one-time handler sendAndWait registered for request r, called with
\* the message being dispatched
OnceInvoke(S, r) ==
    LET id == S.reqs[r].id
    IN IF ~MapHas(S.pending, id)
       THEN S
       ELSE LET r2 == MapGet(S.pending, id).req
                S1 == [S EXCEPT !.timers = @ \ {r2},
                                !.pending = MapDelete(@, id)]
                S2 == Settle(S1, r2, "resolved", S.inSerial, S.disp.mtype)
            IN UnsubscribeOp(S2, OnceHandler(r), S.reqs[r].rtype, S.reqs[r].gen)

\* a sendAndWait that injects the envelope before it tests the WebView
SendAndWaitOp_SendsUnattached(S, type, rtype) ==
    LET r == Len(S.reqs) + 1
        msg == CreateMessage(S, type)
        new == [type |-> type, rtype |-> rtype, id |-> msg.messageId, gen |-> 0,
                born |-> S.inSerial, attached |-> TRUE, log |-> <<>>]
    IN IF ~Attached(S)
       THEN [S EXCEPT !.reqs = Append(@, [new EXCEPT !.id = <<0, 0>>,
                                 !.attached = FALSE,
                                 !.log = <<Settled("notAttached", 0, "none")>>]),
                      !.outbox = Append(@, msg)]
       ELSE LET S1 == [S EXCEPT !.counter = @ + 1,
                                !.timers = @ \cup {r},
                                !.pending = MapSet(@, msg.messageId, r),
                                !.reqs = Append(@, new)]
                S2 == OnRaw(S1, rtype, OnceHandler(r))
            IN [S2 EXCEPT !.reqs[r].gen = S2.handlers[rtype].gen,
                          !.outbox = Append(@, msg)]

\* sendAndWait(type, payload, responseType, timeout)
SendAndWaitOp(S, type, rtype) ==
    LET r == Len(S.reqs) + 1
        msg == CreateMessage(S, type)
        new == [type |-> type, rtype |-> rtype, id |-> msg.messageId, gen |-> 0,
                born |-> S.inSerial, attached |-> TRUE, log |-> <<>>]
    IN IF ~Attached(S)
       THEN [S EXCEPT !.reqs = Append(@, [new EXCEPT !.id = <<0, 0>>,
                                 !.attached = FALSE,
                                 !.log = <<Settled("notAttached", 0, "none")>>])]
       ELSE LET S1 == [S EXCEPT !.counter = @ + 1,
                                !.timers = @ \cup {r},
                                !.pending = MapSet(@, msg.messageId, r),
                                !.reqs = Append(@, new)]
                S2 == OnRaw(S1, rtype, OnceHandler(r))
            IN [S2 EXCEPT !.reqs[r].gen = S2.handlers[rtype].gen,
                          !.outbox = Append(@, msg)]

\* a handleMessage that returns after the any-type handlers
Normalize_GlobalOnly(S) ==
    IF ~S.disp.active THEN S
    ELSE IF S.disp.pos < Len(IterSeq(S)) THEN S
    ELSE [S EXCEPT !.disp = NoDisp]

(***************************************************************************)
(* handleMessage.  Set.prototype.forEach visits the entries in insertion   *)
(* order, entries added before it ends included.  After the any-type       *)
(* handlers, the Set of the message's type is looked up in the Map.        *)
(***************************************************************************)
Normalize(S) ==
    LET toTyped ==
            LET hs == S.handlers[S.disp.mtype]
            IN IF hs.live /\ Len(hs.seq) > 0
               THEN [S EXCEPT !.disp = [active |-> TRUE, phase |-> "typed",
                                        mtype |-> S.disp.mtype, pos |-> 0,
                                        gen |-> hs.gen, isDet |-> FALSE,
                                        det |-> <<>>]]
               ELSE [S EXCEPT !.disp = NoDisp]
    IN IF ~S.disp.active THEN S
       ELSE IF S.disp.pos < Len(IterSeq(S)) THEN S
       ELSE IF S.disp.phase = "global" THEN toTyped
       ELSE [S EXCEPT !.disp = NoDisp]

\* handleMessage with data that parses to a message of type t: up to the
\* first handler call
BeginDispatch(S, t) ==
    Normalize([S EXCEPT !.inSerial = @ + 1,
                        !.invoked = <<>>,
                        !.dlog = [kind |-> "message", mtype |-> t,
                                  globals |-> S.globals,
                                  typed |-> IF S.handlers[t].live
                                            THEN S.handlers[t].seq ELSE <<>>,
                                  waiting |-> {p.req : p \in S.pending},
                                  mutated |-> FALSE, thrown |-> FALSE],
                        !.disp = [active |-> TRUE, phase |-> "global",
                                  mtype |-> t, pos |-> 0, gen |-> 0,
                                  isDet |-> FALSE, det |-> <<>>]])

NextHandler(S) == IF S.disp.active THEN IterSeq(S)[S.disp.pos + 1] ELSE NoHandler

\* forEach calls the next handler
Enter(S) ==
    LET h == NextHandler(S)
        scope == IterScope(S)
    IN [S EXCEPT !.disp.pos = @ + 1,
                 !.invoked = Append(@, [h |-> h, scope |-> scope,
                                        gen |-> S.disp.gen,
                                        sub |-> S.subs.stamp[scope][h],
                                        stale |-> \E x \in S.removed :
                                                     /\ x.h = h
                                                     /\ x.scope = scope
                                                     /\ x.gen = S.disp.gen])]

\* a handler throws: forEach stops and the catch of handleMessage logs
Throw(S) == [S EXCEPT !.disp = NoDisp, !.dlog.thrown = TRUE]

\* a handleMessage that hands unparsed data to the any-type handlers
DropMalformed_NotifiesGlobal(S) ==
    [S EXCEPT !.invoked = [i \in 1..Len(S.globals) |->
                             [h |-> S.globals[i], scope |-> "global", gen |-> 0,
                              sub |-> S.subs.stamp["global"][S.globals[i]],
                              stale |-> FALSE]],
              !.dlog = [NoCall EXCEPT !.kind = "dropped"]]

\* handleMessage with data that JSON.parse rejects: the SyntaxError is caught
\* and logged before any handler is looked at
DropMalformed(S) ==
    [S EXCEPT !.invoked = <<>>, !.dlog = [NoCall EXCEPT !.kind = "dropped"]]

\* a call that adds or removes a subscription; made during a dispatch it is
\* made by a handler of that dispatch
Touch(S) == [S EXCEPT !.dlog.mutated = @ \/ S.disp.active]

(***************************************************************************)
(* Actions of the bridge.  JavaScript runs each call to completion, so a   *)
(* call is made either between tasks (by = NoHandler, no dispatch in       *)
(* progress) or by the application handler `by` that forEach is calling.   *)
(***************************************************************************)
Callers == UserHandlers \cup {NoHandler}
Ctx(by) == /\ calls < MaxCalls
           /\ IF by = NoHandler THEN ~disp.active
              ELSE disp.active /\ NextHandler(St) = by
Called(S) == [S EXCEPT !.calls = @ + 1]
Base(by) == Called(IF by = NoHandler THEN St ELSE Enter(St))
Scopes == InTypes \cup {"global"}

Attach(by, ref) ==
    /\ Ctx(by)
    /\ Apply(Normalize(AttachOp(Base(by), ref)))

Detach(by) ==
    /\ Ctx(by)
    /\ Apply(Normalize(DetachOp(Base(by))))

SetReady(by, b) ==
    /\ Ctx(by)
    /\ Apply(Normalize(SetReadyOp(Base(by), b)))

Send(by, type) ==
    /\ Ctx(by)
    /\ messageCounter < MaxMsgs
    /\ Apply(Normalize(SendOp(Base(by), type)))

SendAndWait(by, type, rtype) ==
    /\ Ctx(by)
    /\ messageCounter < MaxMsgs
    /\ Len(reqs) < MaxReqs
    /\ handlers[rtype].live \/ handlers[rtype].gen < MaxGen
    /\ Apply(Normalize(Touch(SendAndWaitOp(Base(by), type, rtype))))

On(by, type, h) ==
    /\ Ctx(by)
    /\ handlers[type].live \/ handlers[type].gen < MaxGen
    /\ Apply(Normalize(Touch(OnOp(Base(by), type, h))))

OnAny(by, h) ==
    /\ Ctx(by)
    /\ Apply(Normalize(Touch(OnAnyOp(Base(by), h))))

Unsubscribe(by, h, scope, gen) ==
    /\ Ctx(by)
    /\ Has(Content(Base(by), scope, gen), h)
    /\ Apply(Normalize(Touch(UnsubscribeOp(Base(by), h, scope, gen))))

Off(by, type) ==
    /\ Ctx(by)
    /\ Apply(Normalize(Touch(OffOp(Base(by), type))))

RemoveAllHandlers(by) ==
    /\ Ctx(by)
    /\ Apply(Normalize(Touch(RemoveAllHandlersOp(Base(by)))))

\* the application handler forEach calls returns without calling the bridge
HandlerReturns(by) ==
    /\ by \in UserHandlers
    /\ disp.active /\ NextHandler(St) = by
    /\ Apply(Normalize(Enter(St)))

HandlerThrows(by) ==
    /\ by \in UserHandlers
    /\ disp.active /\ NextHandler(St) = by
    /\ Apply(Throw(Enter(St)))

OnceStep ==
    /\ disp.active
    /\ IsOnce(NextHandler(St))
    /\ Apply(Normalize(OnceInvoke(Enter(St), NextHandler(St)[2])))

TimerFire(r) ==
    /\ ~disp.active
    /\ r \in timers
    /\ Apply(TimerFireOp(St, r))

HandleMessage(t) ==
    /\ ~disp.active
    /\ inSerial < MaxInbound
    /\ Apply(BeginDispatch(St, t))

\* handleMessage with data that is not JSON
HandleMalformed ==
    /\ ~disp.active
    /\ Apply(DropMalformed(St))

\* Date.now() advances
Tick ==
    /\ ~disp.active
    /\ now < MaxClock
    /\ Apply([St EXCEPT !.now = @ + 1])

\* React sets or clears ref.current of the attached ref
RefUpdate ==
    /\ ~disp.active
    /\ webViewRef \in {"refNull", "refView"}
    /\ Apply([St EXCEPT !.ref = IF @ = "refView" THEN "refNull" ELSE "refView"])

BridgeInit ==
    /\ webViewRef = "null"
    /\ isReady = FALSE
    /\ handlers = [t \in InTypes |-> NoSet]
    /\ globalHandlers = <<>>
    /\ pendingRequests = {}
    /\ timers = {}
    /\ messageCounter = 0
    /\ now = 0
    /\ outbox = <<>>
    /\ reqs = <<>>
    /\ disp = NoDisp
    /\ inSerial = 0
    /\ invoked = <<>>
    /\ dlog = NoCall
    /\ subs = NoSubs
    /\ sendWarnings = {}
    /\ removed = {}
    /\ calls = 0

\* requests, handler sets and dispatch
BridgeNext ==
    \/ \E by \in Callers : Attach(by, "refView")
    \/ \E by \in Callers : Detach(by)
    \/ \E by \in Callers, rtype \in InTypes : SendAndWait(by, "CAPTURE_SCENE", rtype)
    \/ \E by \in Callers, type \in InTypes, h \in UserHandlers : On(by, type, h)
    \/ \E by \in Callers, h \in UserHandlers : OnAny(by, h)
    \/ \E by \in Callers, h \in UserHandlers, scope \in Scopes, gen \in 0..MaxGen :
          Unsubscribe(by, h, scope, gen)
    \/ \E by \in Callers, type \in InTypes : Off(by, type)
    \/ \E by \in Callers : RemoveAllHandlers(by)
    \/ \E by \in UserHandlers : HandlerReturns(by)
    \/ \E by \in UserHandlers : HandlerThrows(by)
    \/ OnceStep
    \/ \E r \in 1..MaxReqs : TimerFire(r)
    \/ \E t \in InTypes : HandleMessage(t)
    \/ HandleMalformed

(***************************************************************************)
(* useARStore.  capabilities, surfaceNormal, currentFps and memoryUsage    *)
(* are written by their own setters only and read by no action or query    *)
(* below; they are left out of the record.                                 *)
(***************************************************************************)
NULL == "null"
ARStatuses == {"IDLE", "INITIALIZING", "READY", "SURFACE_DETECTED", "ERROR"}
PlacementModes == {"NONE", "PLACING", "ADJUSTING"}
ARErrorCodes == {"XRWEB_INIT_FAILED"}
ErrorMessages == {"init failed"}
ModelIds == {"m1"}

ARInitialState ==
    [status |-> "IDLE", isInitialized |-> FALSE, error |-> NULL,
     errorMessage |-> NULL, surfaceDetected |-> FALSE,
     placementMode |-> "NONE", modelToPlace |-> NULL, webViewReady |-> FALSE]

\* a canPlaceObject() that does not look at placementMode
CanPlaceObject_IgnoresMode(state) ==
    state.isInitialized /\ state.surfaceDetected /\ state.error = NULL

CanPlaceObject(state) ==
    /\ state.isInitialized
    /\ state.surfaceDetected
    /\ state.error = NULL
    /\ state.placementMode = "NONE"

IsSessionActive(state) ==
    state.isInitialized /\ state.webViewReady /\ state.error = NULL

\* set(partial) of the AR store; the scene store and the bridge are not touched
ARSet(next) ==
    /\ ~disp.active
    /\ ar' = next
    /\ UNCHANGED <<scene, modelStore, issuedIds, lastQuery, bridgeVars, storageVars>>

SetStatus(status) == ARSet([ar EXCEPT !.status = status])

SetInitialized(isInitialized) ==
    ARSet([ar EXCEPT !.isInitialized = isInitialized,
                     !.status = IF isInitialized THEN "READY" ELSE "IDLE"])

SetError(error, errorMessage) ==
    ARSet([ar EXCEPT !.error = error,
                     !.errorMessage = errorMessage,
                     !.status = IF error /= NULL THEN "ERROR" ELSE @])

ClearError ==
    ARSet([ar EXCEPT !.error = NULL,
                     !.errorMessage = NULL,
                     !.status = IF ar.isInitialized THEN "READY" ELSE "IDLE"])

SetSurfaceDetected(surfaceDetected) ==
    ARSet([ar EXCEPT !.surfaceDetected = surfaceDetected,
                     !.status = IF surfaceDetected THEN "SURFACE_DETECTED"
                                ELSE "READY"])

ClearSurface ==
    ARSet([ar EXCEPT !.surfaceDetected = FALSE,
                     !.status = IF ar.isInitialized THEN "READY" ELSE "IDLE"])

\* a startPlacing that forgets the candidate model
StartPlacing_NoModel(modelId) == ARSet([ar EXCEPT !.placementMode = "PLACING"])

StartPlacing(modelId) ==
    ARSet([ar EXCEPT !.placementMode = "PLACING", !.modelToPlace = modelId])

StartAdjusting ==
    ARSet([ar EXCEPT !.placementMode = "ADJUSTING", !.modelToPlace = NULL])

CancelPlacement ==
    ARSet([ar EXCEPT !.placementMode = "NONE", !.modelToPlace = NULL])

ConfirmPlacement ==
    ARSet([ar EXCEPT !.placementMode = "NONE", !.modelToPlace = NULL])

SetWebViewReady(webViewReady) ==
    ARSet([ar EXCEPT !.webViewReady = webViewReady,
                     !.status = IF webViewReady THEN "INITIALIZING" ELSE "IDLE"])

Reset == ARSet(ARInitialState)

\* a store query: get() and a returned value, no set()
Query(fn, result) ==
    /\ ~disp.active
    /\ lastQuery' = [fn |-> fn, result |-> result]
    /\ UNCHANGED <<ar, scene, modelStore, issuedIds, bridgeVars, storageVars>>

CanPlaceObjectQuery == Query("canPlaceObject", CanPlaceObject(ar))
IsSessionActiveQuery == Query("isSessionActive", IsSessionActive(ar))

(***************************************************************************)
(* useSceneStore: the active scene and its placed objects.                 *)
(***************************************************************************)
MAX_OBJECTS_PER_SCENE == 10
MAX_PLACED_OBJECTS == 10
NoObject == 0       \* selectedObjectId = null
MaxIssued == 11     \* PlacedObjects the application creates in one behaviour
FirstIssued == 100  \* ids of created objects are FirstIssued + 1, + 2, ...

PlacedObject(id) == [id |-> id, modelId |-> "m1"]
\* saved scenes handed to loadScene: an empty one and one with the ten
\* objects a SavedScene may hold
SceneInputs ==
    {[id |-> "s1", name |-> "a", objects |-> <<>>, createdAt |-> 0, updatedAt |-> 0],
     [id |-> "s2", name |-> "a",
      objects |-> [i \in 1..MAX_OBJECTS_PER_SCENE |-> PlacedObject(i)],
      createdAt |-> 0, updatedAt |-> 0]}
\* currentScene = null
NoScene ==
    [id |-> NULL, name |-> NULL, objects |-> <<>>, createdAt |-> 0, updatedAt |-> 0]
\* object ids passed to removeObject and selectObject
PickIds == {1, FirstIssued + 1}

\* scanSession = null
NoScan == [status |-> "null", photos |-> 0]

SceneInitialState ==
    [currentScene |-> NoScene, savedScenes |-> <<>>, placedObjects |-> <<>>,
     selectedObjectId |-> NoObject, isDirty |-> FALSE, scanSession |-> NoScan,
     generated |-> 0, returned |-> NoScene]

CanAddObject(state) == Len(state.placedObjects) < MAX_OBJECTS_PER_SCENE

SceneSet(next) ==
    /\ ~disp.active
    /\ scene' = next
    /\ UNCHANGED <<ar, modelStore, lastQuery, bridgeVars, storageVars>>

NewScene ==
    /\ SceneSet([scene EXCEPT !.currentScene = NoScene, !.placedObjects = <<>>,
                              !.selectedObjectId = NoObject, !.isDirty = FALSE])
    /\ UNCHANGED issuedIds

LoadScene(s) ==
    /\ SceneSet([scene EXCEPT !.currentScene = s, !.placedObjects = s.objects,
                              !.selectedObjectId = NoObject, !.isDirty = FALSE])
    /\ UNCHANGED issuedIds

\* the application creates a PlacedObject with a fresh id and adds it
AddObject ==
    /\ issuedIds < MaxIssued
    /\ issuedIds' = issuedIds + 1
    /\ SceneSet([scene EXCEPT
          !.placedObjects = Append(@, PlacedObject(FirstIssued + issuedIds + 1)),
          !.isDirty = TRUE])

RemoveObject(objectId) ==
    /\ SceneSet([scene EXCEPT
          !.placedObjects = SelectSeq(@, LAMBDA obj : obj.id /= objectId),
          !.selectedObjectId = IF @ = objectId THEN NoObject ELSE @,
          !.isDirty = TRUE])
    /\ UNCHANGED issuedIds

ClearObjects ==
    /\ SceneSet([scene EXCEPT !.placedObjects = <<>>,
                              !.selectedObjectId = NoObject, !.isDirty = TRUE])
    /\ UNCHANGED issuedIds

SelectObject(objectId) ==
    /\ SceneSet([scene EXCEPT !.selectedObjectId = objectId])
    /\ UNCHANGED issuedIds

CanAddObjectQuery == Query("canAddObject", CanAddObject(scene))

MIN_SCAN_PHOTOS == 20
ScanStatuses ==
    {"PREPARING", "CAPTURING", "PROCESSING", "COMPLETE", "FAILED", "CANCELLED"}
\* lengths of the photos arrays handed to startScan and updateScan
PhotoCounts == {0, 1, MIN_SCAN_PHOTOS - 1, MIN_SCAN_PHOTOS}
\* a ScanSession: its status and the length of its photos array
ScanSessions == [status : ScanStatuses, photos : PhotoCounts]
\* a Partial<ScanSession>: the fields it carries and their values
ScanUpdates ==
    [fields : SUBSET {"status", "photos"}, status : ScanStatuses, photos : PhotoCounts]

StartScan(session) ==
    /\ SceneSet([scene EXCEPT !.scanSession = session])
    /\ UNCHANGED issuedIds

\* an updateScan that opens a session from the updates when there is none
UpdatedScan_OpensSession(state, updates) ==
    [state EXCEPT !.scanSession =
        [status |-> IF "status" \in updates.fields \/ @ = NoScan
                    THEN updates.status ELSE @.status,
         photos |-> IF "photos" \in updates.fields \/ @ = NoScan
                    THEN updates.photos ELSE @.photos]]

\* {...state.scanSession, ...updates}, or null when there is no session
UpdatedScan(state, updates) ==
    [state EXCEPT !.scanSession =
        IF @ = NoScan THEN NoScan
        ELSE [status |-> IF "status" \in updates.fields THEN updates.status
                         ELSE @.status,
              photos |-> IF "photos" \in updates.fields THEN updates.photos
                         ELSE @.photos]]

UpdateScan(updates) ==
    /\ SceneSet(UpdatedScan(scene, updates))
    /\ UNCHANGED issuedIds

\* updateScan together with what its caller knows: that the call was made,
\* and whether a session was active when it was made
UpdateScanCall(updates) ==
    /\ ~disp.active
    /\ scene' = UpdatedScan(scene, updates)
    /\ lastQuery' = [fn |-> "updateScan", result |-> scene.scanSession /= NoScan]
    /\ UNCHANGED <<ar, modelStore, issuedIds, bridgeVars, storageVars>>

EndScan ==
    /\ SceneSet([scene EXCEPT !.scanSession = NoScan])
    /\ UNCHANGED issuedIds

\* ARWebViewBridge.endScan: this.send('END_SCAN', payload)
BridgeEndScan(by) == Send(by, "END_SCAN")

\* ARWebViewBridge.loadModel: this.send('LOAD_MODEL', payload)
LoadModel(by) == Send(by, "LOAD_MODEL")

\* useModelStore
NoModelId == 0      \* selectedModelId = null
ModelInitialState == [models |-> <<>>, selectedModelId |-> NoModelId]

StoreInit ==
    /\ ar = ARInitialState
    /\ scene = SceneInitialState
    /\ modelStore = ModelInitialState
    /\ issuedIds = 0
    /\ lastQuery = [fn |-> "none", result |-> FALSE]

(***************************************************************************)
(* asyncStorageHelpers: the model index and the scene index in             *)
(* AsyncStorage.  A helper call runs up to its await of getItem, continues *)
(* when getItem settles (parse, change the index, serialise, call setItem) *)
(* and ends when setItem settles; calls interleave at those awaits.        *)
(***************************************************************************)
MAX_MODELS == 50
MAX_SCENES == 20
MaxProcs == 2       \* helper calls made in one behaviour

MODEL_INDEX == "@ar_furniture/model_index"
SCENE_INDEX == "@ar_furniture/scene_index"
SETTINGS == "@ar_furniture/settings"
IndexKeys == {MODEL_INDEX, SCENE_INDEX}
StorageKeys == IndexKeys \cup {SETTINGS}
Capacity(key) == IF key = MODEL_INDEX THEN MAX_MODELS ELSE MAX_SCENES
MutationOps == {"add", "update", "remove"}
IndexOps == MutationOps \cup {"get"}
\* ids of the models / scenes passed to the helpers
ItemIds == {1, 1000}
\* a Model / SavedScene: its id, its updatedAt, and the rest of its fields
Item(id, data, updatedAt) ==
    [id |-> id, data |-> data, updatedAt |-> updatedAt, isBundled |-> FALSE]
\* a pre-loaded model: isBundled is true
Bundled(item) == [item EXCEPT !.isBundled = TRUE]
NoItem == Item(0, "none", 0)
\* the argument of a helper: a model / scene just made by the caller, or the
\* id alone for remove*FromIndex
Arg(op, id) == IF op = "remove" THEN Item(id, "none", 0) ELSE Item(id, "new", now)

\* what AsyncStorage holds under a key: nothing, text that is not JSON, or
\* the text JSON.stringify made of an index
Absent == [kind |-> "absent", items |-> <<>>, lastUpdated |-> 0]
Garbage == [kind |-> "garbage", items |-> <<>>, lastUpdated |-> 0]
\* a serialisation that loses the collection
Stringify_EmptyItems(index) ==
    [kind |-> "json", items |-> <<>>, lastUpdated |-> index.lastUpdated]

Stringify(index) ==
    [kind |-> "json", items |-> index.items, lastUpdated |-> index.lastUpdated]
\* a JSON.parse that accepts any text
ParseFails_Never(text) == FALSE
\* JSON.parse: a fresh object, or a SyntaxError
ParseFails(text) == text.kind = "garbage"
Parse(text) == [items |-> text.items, lastUpdated |-> text.lastUpdated]

\* readFromStorage after getItem settled with value: the parsed object, or
\* the DEFAULT_* object itself when the key is absent
IsDefault(value) == value.kind = "absent"
ReadIndex(key, value) ==
    IF IsDefault(value) THEN [items |-> defaults[key], lastUpdated |-> 0]
    ELSE Parse(value)

\* findIndex(m => m.id === model.id): the first position, 0 for -1
FindIndex(items, id) ==
    IF \E n \in 1..Len(items) : items[n].id = id
    THEN CHOOSE n \in 1..Len(items) :
            /\ items[n].id = id
            /\ \A m \in 1..(n - 1) : items[m].id /= id
    ELSE 0

\* the change a helper makes to the index it read
Changed(op, items, arg) ==
    IF op = "add" THEN Append(items, arg)
    ELSE IF op = "update"
    THEN IF FindIndex(items, arg.id) = 0 THEN items
         ELSE [items EXCEPT ![FindIndex(items, arg.id)] = arg]
    ELSE IF op = "remove" THEN SelectSeq(items, LAMBDA m : m.id /= arg.id)
    ELSE items

\* whether the helper goes on to save*Index
Saves(op, items, arg) ==
    \/ op \in {"add", "remove"}
    \/ op = "update" /\ FindIndex(items, arg.id) /= 0

\* a save*Index that leaves lastUpdated as it was
SaveText_StaleLastUpdated(items) == Stringify([items |-> items, lastUpdated |-> 0])

\* save*Index: {...index, lastUpdated: Date.now()}, serialised by writeToStorage
SaveText(items) == Stringify([items |-> items, lastUpdated |-> now])

StorageStep ==
    /\ ~disp.active
    /\ UNCHANGED <<storeVars, bridgeVars>>

NewProc(op, key, arg) ==
    [op |-> op, key |-> key, arg |-> arg, pc |-> "read", saw |-> "none",
     seen |-> 0, idx |-> 0, ret |-> <<>>, text |-> Absent, savedAt |-> 0,
     writes |-> 0,
     wrote |-> FALSE, result |-> "pending"]

\* the call of addXToIndex / updateXInIndex / removeXFromIndex, up to await
\* getItem
CallIndexOp(op, key, id) ==
    /\ StorageStep
    /\ Len(procs) < MaxProcs
    /\ procs' = Append(procs, NewProc(op, key, Arg(op, id)))
    /\ UNCHANGED <<storage, defaults>>

\* the call of getModelIndex / getSceneIndex / getSettings
CallGet(key) ==
    /\ StorageStep
    /\ Len(procs) < MaxProcs
    /\ procs' = Append(procs, NewProc("get", key, NoItem))
    /\ UNCHANGED <<storage, defaults>>

\* getItem resolves; the helper runs on to its await of setItem, or to its
\* end when it has nothing to save
ReadDone(i) ==
    /\ StorageStep
    /\ i \in 1..Len(procs)
    /\ procs[i].pc = "read"
    /\ LET p == procs[i]
           value == storage[p.key]
           index == ReadIndex(p.key, value)
           items == Changed(p.op, index.items, p.arg)
           idx == IF p.op = "update" THEN FindIndex(index.items, p.arg.id) ELSE 0
       IN IF ParseFails(value)
          THEN /\ procs' = [procs EXCEPT ![i].pc = "done",
                                         ![i].saw = value.kind,
                                         ![i].result = "PARSE_ERROR"]
               /\ UNCHANGED defaults
          ELSE IF p.op = "get"
          THEN /\ procs' = [procs EXCEPT ![i].pc = "done", ![i].result = "ok",
                                         ![i].saw = value.kind,
                                         ![i].seen = Len(index.items),
                                         ![i].ret = index.items,
                                         ![i].text = Stringify(index)]
               /\ UNCHANGED defaults
          ELSE /\ procs' =
                    IF Saves(p.op, index.items, p.arg)
                    THEN [procs EXCEPT ![i].pc = "write",
                                       ![i].saw = value.kind,
                                       ![i].seen = Len(index.items),
                                       ![i].idx = idx,
                                       ![i].savedAt = now,
                                       ![i].text = SaveText(items)]
                    ELSE [procs EXCEPT ![i].pc = "done", ![i].result = "ok",
                                       ![i].saw = value.kind,
                                       ![i].seen = Len(index.items),
                                       ![i].idx = idx]
               /\ defaults' = IF IsDefault(value)
                              THEN [defaults EXCEPT ![p.key] = items]
                              ELSE defaults
    /\ UNCHANGED storage

\* getItem rejects
ReadFails(i) ==
    /\ StorageStep
    /\ i \in 1..Len(procs)
    /\ procs[i].pc = "read"
    /\ procs' = [procs EXCEPT ![i].pc = "done", ![i].result = "READ_ERROR"]
    /\ UNCHANGED <<storage, defaults>>

\* setItem stores the text and resolves
WriteDone(i) ==
    /\ StorageStep
    /\ i \in 1..Len(procs)
    /\ procs[i].pc = "write"
    /\ storage' = [storage EXCEPT ![procs[i].key] = procs[i].text]
    /\ procs' = [procs EXCEPT ![i].pc = "done", ![i].result = "ok",
                              ![i].wrote = TRUE, ![i].writes = @ + 1]
    /\ UNCHANGED defaults

\* setItem rejects
WriteFails(i) ==
    /\ StorageStep
    /\ i \in 1..Len(procs)
    /\ procs[i].pc = "write"
    /\ procs' = [procs EXCEPT ![i].pc = "done", ![i].result = "WRITE_ERROR"]
    /\ UNCHANGED <<storage, defaults>>

\* clearAllData: multiRemove of every key
ClearAllData ==
    /\ StorageStep
    /\ storage' = [k \in StorageKeys |-> Absent]
    /\ UNCHANGED <<defaults, procs>>

\* a fresh installation: nothing stored
StorageInit ==
    /\ storage = [k \in StorageKeys |-> Absent]
    /\ defaults = [k \in StorageKeys |-> <<>>]
    /\ procs = <<>>

\* what earlier runs of the application can have left under a key: nothing,
\* text that does not parse, or an index of up to Capacity(key) entries (for
\* the settings key: the settings, which hold no collection)
StoredItem(key, i) ==
    IF key = MODEL_INDEX /\ i = 1 THEN Bundled(Item(i, "old", 0)) ELSE Item(i, "old", 0)
StoredIndex(key, n) ==
    Stringify([items |-> [i \in 1..n |-> StoredItem(key, i)], lastUpdated |-> 0])
StoredValues(key) ==
    IF key = SETTINGS THEN {Absent, Garbage, StoredIndex(key, 0)}
    ELSE {Absent, Garbage}
            \cup {StoredIndex(key, n) : n \in {Capacity(key) - 1, Capacity(key)}}
StoredInit ==
    /\ BridgeInit
    /\ StoreInit
    /\ storage \in [StorageKeys -> UNION {StoredValues(k) : k \in StorageKeys}]
    /\ \A k \in StorageKeys : storage[k] \in StoredValues(k)
    /\ defaults = [k \in StorageKeys |-> <<>>]
    /\ procs = <<>>

(***************************************************************************)
(* useSceneStore: the saved scenes held in memory.  scene.generated counts *)
(* the generateId() calls, scene.returned is the SavedScene the last       *)
(* saveScene call returned.                                                *)
(***************************************************************************)
MaxSaves == 2       \* scenes saveScene creates in one behaviour
SceneNames == {"a", "b"}
\* generateId(): Date.now() and a random suffix, an id no scene has yet
GenerateId(n) == "g" \o ToString(n)
\* scene lists handed to setSavedScenes: none, and as many as may be kept
SavedScene(i) ==
    [id |-> "k" \o ToString(i), name |-> "a", objects |-> <<>>,
     createdAt |-> 0, updatedAt |-> 0]
SavedLists == {[i \in 1..n |-> SavedScene(i)] : n \in {0, MAX_SCENES}}

CanSaveScene(state) ==
    Len(state.savedScenes) < MAX_SCENES \/ state.currentScene /= NoScene

\* savedScenes.find(s => s.id === id), NoScene for undefined
GetSceneById(state, id) ==
    IF \E n \in 1..Len(state.savedScenes) : state.savedScenes[n].id = id
    THEN state.savedScenes[CHOOSE n \in 1..Len(state.savedScenes) :
            /\ state.savedScenes[n].id = id
            /\ \A m \in 1..(n - 1) : state.savedScenes[m].id /= id]
    ELSE NoScene

SaveScene(name) ==
    LET cur == scene.currentScene
        has == cur /= NoScene
        new == [id |-> IF has THEN cur.id ELSE GenerateId(scene.generated + 1),
                name |-> name,
                objects |-> scene.placedObjects,
                createdAt |-> IF has THEN cur.createdAt ELSE now,
                updatedAt |-> now]
    IN /\ has \/ scene.generated < MaxSaves
       /\ SceneSet([scene EXCEPT
             !.currentScene = new,
             !.savedScenes =
                IF has
                THEN [i \in 1..Len(@) |-> IF @[i].id = new.id THEN new ELSE @[i]]
                ELSE Append(@, new),
             !.isDirty = FALSE,
             !.generated = IF has THEN @ ELSE @ + 1,
             !.returned = new])
       /\ UNCHANGED issuedIds

DeleteScene(sceneId) ==
    /\ SceneSet([scene EXCEPT
          !.savedScenes = SelectSeq(@, LAMBDA sc : sc.id /= sceneId),
          !.currentScene = IF @.id = sceneId THEN NoScene ELSE @])
    /\ UNCHANGED issuedIds

SetSavedScenes(savedScenes) ==
    /\ SceneSet([scene EXCEPT !.savedScenes = savedScenes])
    /\ UNCHANGED issuedIds

CanSaveSceneQuery == Query("canSaveScene", CanSaveScene(scene))

(***************************************************************************)
(* useModelStore: the model library held in memory.                        *)
(***************************************************************************)
MaxOver == 1        \* entries a store is let grow beyond its limit
\* model lists handed to setModels: none, one bundled model, a full library
ModelLists ==
    {[i \in 1..n |-> StoredItem(MODEL_INDEX, i)] : n \in {0, 1, MAX_MODELS}}
\* the model handed to addModel
NewModel == Item(1000, "new", 0)

CanAddModel(state) == Len(state.models) < MAX_MODELS

ModelSet(next) ==
    /\ ~disp.active
    /\ modelStore' = next
    /\ UNCHANGED <<ar, scene, issuedIds, lastQuery, bridgeVars, storageVars>>

SetModels(models) == ModelSet([modelStore EXCEPT !.models = models])

AddModel(model) ==
    /\ Len(modelStore.models) < MAX_MODELS + MaxOver
    /\ ModelSet([modelStore EXCEPT !.models = Append(@, model)])

UpdateModel(model) ==
    ModelSet([modelStore EXCEPT
       !.models = [i \in 1..Len(@) |-> IF @[i].id = model.id THEN model ELSE @[i]]])

RemoveModel(modelId) ==
    ModelSet([modelStore EXCEPT
       !.models = SelectSeq(@, LAMBDA m : m.id /= modelId),
       !.selectedModelId = IF @ = modelId THEN NoModelId ELSE @])

SelectModel(modelId) == ModelSet([modelStore EXCEPT !.selectedModelId = modelId])

CanAddModelQuery ==
    /\ Query("canAddModel", CanAddModel(modelStore))

vars == <<webViewRef, isReady, handlers, globalHandlers, pendingRequests,
          timers, messageCounter, now, outbox, reqs, disp, inSerial,
          invoked, dlog, removed, subs, sendWarnings, calls, ar, scene, modelStore,
          issuedIds, lastQuery,
          storage, defaults, procs>>

Init == BridgeInit /\ StoreInit /\ StorageInit
Spec == Init /\ [][BridgeNext]_vars

(***************************************************************************)
(* The bridge with its scheduling: a handleMessage call runs to completion *)
(* (its forEach is synchronous, so the bridge is outside a dispatch again  *)
(* and again), and an armed timer that is not cleared fires.               *)
(***************************************************************************)
FairSpec ==
    /\ Init
    /\ [][BridgeNext]_vars
    /\ []<>(~disp.active)
    /\ \A r \in 1..MaxReqs : WF_vars(TimerFire(r))

\* the AR store with the objects of the active scene
ArNext ==
    \/ \E status \in ARStatuses : SetStatus(status)
    \/ \E b \in BOOLEAN : SetInitialized(b)
    \/ \E error \in ARErrorCodes \cup {NULL}, msg \in ErrorMessages \cup {NULL} :
          SetError(error, msg)
    \/ ClearError
    \/ \E b \in BOOLEAN : SetSurfaceDetected(b)
    \/ ClearSurface
    \/ \E modelId \in ModelIds : StartPlacing(modelId)
    \/ StartAdjusting
    \/ CancelPlacement
    \/ ConfirmPlacement
    \/ \E b \in BOOLEAN : SetWebViewReady(b)
    \/ Reset
    \/ CanPlaceObjectQuery
    \/ IsSessionActiveQuery
    \/ CanAddObjectQuery
    \/ AddObject
    \/ ClearObjects
ArSpec == Init /\ [][ArNext]_vars

\* the scene store and the LOAD_MODEL requests of the bridge
SceneNext ==
    \/ NewScene
    \/ \E s \in SceneInputs : LoadScene(s)
    \/ AddObject
    \/ \E objectId \in PickIds : RemoveObject(objectId)
    \/ ClearObjects
    \/ \E objectId \in PickIds \cup {NoObject} : SelectObject(objectId)
    \/ CanAddObjectQuery
    \/ Attach(NoHandler, "refView")
    \/ LoadModel(NoHandler)
SceneSpec == Init /\ [][SceneNext]_vars

\* a scan session in the scene store and the engine told to end the scan
ScanNext ==
    \/ \E session \in ScanSessions : StartScan(session)
    \/ \E updates \in ScanUpdates : UpdateScan(updates)
    \/ EndScan
    \/ Attach(NoHandler, "refView")
    \/ BridgeEndScan(NoHandler)
ScanSpec == Init /\ [][ScanNext]_vars

\* scan updates that arrive with and without an active session, on an empty
\* and on a loaded scene
LateScanNext ==
    \/ \E session \in ScanSessions : StartScan(session)
    \/ \E updates \in ScanUpdates : UpdateScanCall(updates)
    \/ EndScan
    \/ \E s \in SceneInputs : LoadScene(s)
    \/ NewScene
LateScanSpec == Init /\ [][LateScanNext]_vars

\* the model library in memory and in the stored model index
ModelStoredInit ==
    /\ BridgeInit
    /\ StoreInit
    /\ storage = [k \in StorageKeys |->
                     IF k = MODEL_INDEX THEN StoredIndex(k, MAX_MODELS) ELSE Absent]
    /\ defaults = [k \in StorageKeys |-> <<>>]
    /\ procs = <<>>
ModelNext ==
    \/ \E models \in ModelLists : SetModels(models)
    \/ AddModel(NewModel)
    \/ \E id \in ItemIds : UpdateModel(Item(id, "new", 0))
    \/ \E id \in ItemIds : RemoveModel(id)
    \/ \E id \in ItemIds \cup {NoModelId} : SelectModel(id)
    \/ CanAddModelQuery
    \/ \E op \in {"update", "remove"}, id \in ItemIds :
          CallIndexOp(op, MODEL_INDEX, id)
    \/ \E i \in 1..MaxProcs : ReadDone(i)
    \/ \E i \in 1..MaxProcs : WriteDone(i)
ModelSpec == ModelStoredInit /\ [][ModelNext]_vars

\* saving, loading and deleting scenes
SaveNext ==
    \/ \E name \in SceneNames : SaveScene(name)
    \/ \E s \in SceneInputs : LoadScene(s)
    \/ NewScene
    \/ \E id \in {"s1", "k1", GenerateId(1)} : DeleteScene(id)
    \/ \E list \in SavedLists : SetSavedScenes(list)
    \/ CanSaveSceneQuery
    \/ Tick
SaveSpec == Init /\ [][SaveNext]_vars

\* the two in-memory stores filled up to their limits
LimitNext ==
    \/ \E models \in ModelLists : SetModels(models)
    \/ AddModel(NewModel)
    \/ CanAddModelQuery
    \/ \E list \in SavedLists : SetSavedScenes(list)
    \/ NewScene
    \/ \E name \in SceneNames : SaveScene(name)
    \/ CanSaveSceneQuery
LimitSpec == Init /\ [][LimitNext]_vars

\* the AR store driven by its event actions alone
ArEventNext ==
    \/ \E b \in BOOLEAN : SetWebViewReady(b)
    \/ \E b \in BOOLEAN : SetInitialized(b)
    \/ \E b \in BOOLEAN : SetSurfaceDetected(b)
    \/ ClearSurface
    \/ \E error \in ARErrorCodes \cup {NULL}, msg \in ErrorMessages \cup {NULL} :
          SetError(error, msg)
    \/ ClearError
    \/ Reset
ArEventSpec == Init /\ [][ArEventNext]_vars

\* the index helpers over what is stored
StorageNext ==
    \/ \E op \in MutationOps, key \in IndexKeys, id \in ItemIds :
          CallIndexOp(op, key, id)
    \/ \E key \in StorageKeys : CallGet(key)
    \/ \E i \in 1..MaxProcs : ReadDone(i)
    \/ \E i \in 1..MaxProcs : ReadFails(i)
    \/ \E i \in 1..MaxProcs : WriteDone(i)
    \/ \E i \in 1..MaxProcs : WriteFails(i)
    \/ ClearAllData
    \/ Tick
StorageSpec == StoredInit /\ [][StorageNext]_vars

\* sends with and without an attached WebView
SendNext ==
    \/ \E ref \in {"refNull", "refView"} : Attach(NoHandler, ref)
    \/ Detach(NoHandler)
    \/ RefUpdate
    \/ \E type \in OutTypes : Send(NoHandler, type)
    \/ SendAndWait(NoHandler, "CAPTURE_SCENE", "SCENE_CAPTURED")
    \/ On(NoHandler, "SCENE_CAPTURED", <<"u", 1>>)
    \/ HandleMessage("SCENE_CAPTURED")
    \/ HandlerReturns(<<"u", 1>>)
    \/ OnceStep
    \/ \E r \in 1..MaxReqs : TimerFire(r)
SendSpec == Init /\ [][SendNext]_vars

\* the ready flag with and without an attached WebView
ReadyNext ==
    \/ \E ref \in {"refNull", "refView"} : Attach(NoHandler, ref)
    \/ Detach(NoHandler)
    \/ \E b \in BOOLEAN : SetReady(NoHandler, b)
    \/ RefUpdate
    \/ \E type \in OutTypes : Send(NoHandler, type)
ReadySpec == Init /\ [][ReadyNext]_vars

\* envelopes and their ids
IdNext ==
    \/ Attach(NoHandler, "refView")
    \/ Detach(NoHandler)
    \/ \E type \in OutTypes : Send(NoHandler, type)
    \/ SendAndWait(NoHandler, "CAPTURE_SCENE", "SCENE_CAPTURED")
    \/ OnceStep
    \/ \E r \in 1..MaxReqs : TimerFire(r)
    \/ HandleMessage("SCENE_CAPTURED")
    \/ Tick
IdSpec == Init /\ [][IdNext]_vars

Created(r) == r \in 1..Len(reqs)
Outstanding(r) == Created(r) /\ reqs[r].log = <<>>
HasPending(r) == \E p \in pendingRequests : p.req = r

\* C1: detach() rejects every request that is still outstanding, exactly once
\* and with 'Bridge detached', empties the pending-request set, and does not
\* touch a request that a response or its timeout has already settled.
C1_DetachRejectsOutstanding ==
    [][(\E by \in Callers : Detach(by)) =>
          /\ pendingRequests' = {}
          /\ \A r \in 1..Len(reqs) :
                reqs'[r].log = IF reqs[r].log = <<>>
                               THEN <<Settled("detached", 0, "none")>>
                               ELSE reqs[r].log]_vars

C1_Witness ==
    /\ webViewRef = "null"
    /\ pendingRequests = {}
    /\ \E r1, r2 \in 1..Len(reqs) :
          /\ reqs[r1].log = <<Settled("detached", 0, "none")>>
          /\ reqs[r2].log = <<Settled("timeout", 0, "none")>>

\* C2: the timer of a sendAndWait fires only while the request is unsettled;
\* it rejects the promise with the timeout error and removes the Pending
\* Request, and nothing (a later detach() included) settles it again.
C2_TimeoutRejectsAndRemoves ==
    [][\A r \in 1..Len(reqs) :
          /\ TimerFire(r) =>
                /\ reqs[r].attached
                /\ reqs[r].log = <<>>
                /\ reqs'[r].log = <<Settled("timeout", 0, "none")>>
                /\ ~\E p \in pendingRequests' : p.req = r \/ p.id = reqs[r].id
          /\ (reqs[r].log /= <<>> /\ reqs[r].log[1].kind = "timeout") =>
                reqs'[r].log = reqs[r].log]_vars

C2_Witness ==
    \E r \in 1..Len(reqs) :
       /\ reqs[r].attached
       /\ reqs[r].log = <<Settled("timeout", 0, "none")>>
       /\ webViewRef = "null"

\* C3: a sendAndWait promise has its resolve / reject called at most once, its
\* Pending Request exists exactly while it is unsettled, and with its timer
\* and the dispatch scheduled fairly every promise is eventually settled.
C3_Safety ==
    \A r \in 1..Len(reqs) :
       /\ Len(reqs[r].log) <= 1
       /\ HasPending(r) <=> reqs[r].log = <<>>
       /\ r \in timers <=> reqs[r].log = <<>>
C3_SettledExactlyOnce ==
    /\ []C3_Safety
    /\ \A r \in 1..MaxReqs : Outstanding(r) ~> (Created(r) /\ reqs[r].log /= <<>>)

C3_Witness ==
    \E r1, r2 \in 1..Len(reqs) :
       /\ reqs[r1].log /= <<>> /\ reqs[r1].log[1].kind = "resolved"
       /\ reqs[r2].log /= <<>> /\ reqs[r2].log[1].kind = "timeout"
       /\ ~handlers[reqs[r2].rtype].live

\* C4: a sendAndWait promise is resolved only by a message of the expected
\* type whose dispatch began after the sendAndWait call.
C4_ResolvedOnlyByLaterMessage ==
    \A r \in 1..Len(reqs) : \A i \in 1..Len(reqs[r].log) :
       reqs[r].log[i].kind = "resolved" =>
          /\ reqs[r].log[i].mtype = reqs[r].rtype
          /\ reqs[r].log[i].serial > reqs[r].born

\* C5: forEach never calls a handler whose membership of the Set it walks was
\* removed by the handler's unsubscribe function and not renewed by a later
\* subscription - neither for the message being dispatched when it was
\* removed nor for a later one.
C5_UnsubscribedNeverInvoked ==
    \A i \in 1..Len(invoked) : ~invoked[i].stale

C5_Witness ==
    \E x \in removed :
       /\ x.w = 1
       /\ x.h \in UserHandlers
       /\ inSerial = 2
       /\ invoked /= <<>>
       /\ invoked[1].scope = x.scope
       /\ invoked[1].h /= x.h

\* C6: an addModelToIndex / addSceneToIndex call that read a stored index
\* already holding Capacity(key) entries ends with a quota error and without
\* having written, so that the stored index is the one it read.
C6_AddAtCapacityFailsWithoutWrite ==
    \A i \in 1..Len(procs) :
       (procs[i].op = "add" /\ procs[i].seen = Capacity(procs[i].key)
            /\ procs[i].pc = "done") =>
          /\ procs[i].result = "QUOTA_EXCEEDED"
          /\ ~procs[i].wrote
          /\ Len(storage[procs[i].key].items) <= Capacity(procs[i].key)

\* C7: the active scene never holds more than MAX_OBJECTS_PER_SCENE placed
\* objects, whatever sequence of addObject, loadScene, removeObject,
\* clearObjects and newScene produced it.
C7_PlacedObjectsCapped ==
    Len(scene.placedObjects) <= MAX_OBJECTS_PER_SCENE

\* C8: canPlaceObject() returns true exactly when isInitialized is true,
\* surfaceDetected is true, error is null and placementMode is NONE, and the
\* call leaves every field of the AR store as it was.
C8_CanPlaceObjectIsPureConjunction ==
    [][CanPlaceObjectQuery =>
          /\ lastQuery'.fn = "canPlaceObject"
          /\ lastQuery'.result = (/\ ar.isInitialized = TRUE
                                  /\ ar.surfaceDetected = TRUE
                                  /\ ar.error = NULL
                                  /\ ar.placementMode = "NONE")
          /\ ar' = ar]_vars

C8_Witness ==
    /\ lastQuery = [fn |-> "canPlaceObject", result |-> TRUE]
    /\ ar.status = "SURFACE_DETECTED"
    /\ ar.webViewReady

\* C9: with the session initialized, a surface detected and no error (and no
\* placement under way), canAddObject() and canPlaceObject() are both false
\* when MAX_PLACED_OBJECTS objects are placed and both true when fewer are.
C9_BothGuardsFollowObjectCount ==
    (ar.isInitialized /\ ar.surfaceDetected /\ ar.error = NULL
        /\ ar.placementMode = "NONE") =>
       /\ Len(scene.placedObjects) = MAX_PLACED_OBJECTS =>
             ~CanAddObject(scene) /\ ~CanPlaceObject(ar)
       /\ Len(scene.placedObjects) < MAX_PLACED_OBJECTS =>
             CanAddObject(scene) /\ CanPlaceObject(ar)

\* C10: the envelopes created have pairwise different messageIds, and every
\* outstanding request has a Pending Request of its own under its messageId.
C10_MessageIdsUnique ==
    /\ \A i, j \in 1..Len(outbox) :
          i /= j => outbox[i].messageId /= outbox[j].messageId
    /\ \A r \in 1..Len(reqs) :
          Outstanding(r) => [id |-> reqs[r].id, req |-> r] \in pendingRequests
    /\ \A p, q \in pendingRequests : p.id = q.id => p = q

C10_Witness ==
    /\ Len(outbox) = MaxMsgs
    /\ Cardinality(pendingRequests) = 2
    /\ outbox[1].messageId[1] = outbox[2].messageId[1]

\* a handleMessage call given a well-formed message has returned
DispatchDone == dlog.kind = "message" /\ ~disp.active
InvokedTimes(h, scope) ==
    Cardinality({i \in 1..Len(invoked) : invoked[i].h = h /\ invoked[i].scope = scope})
\* every handler subscribed when handleMessage was called was invoked once
\* from the Set it was subscribed in, the any-type handlers first, and no
\* handler was invoked from the Set of another type
Delivered ==
    /\ \A i \in 1..Len(dlog.globals) : InvokedTimes(dlog.globals[i], "global") = 1
    /\ \A i \in 1..Len(dlog.typed) : InvokedTimes(dlog.typed[i], dlog.mtype) = 1
    /\ \A i, j \in 1..Len(invoked) :
          i < j => ~(invoked[i].scope /= "global" /\ invoked[j].scope = "global")
    /\ \A i \in 1..Len(invoked) : invoked[i].scope \in {"global", dlog.mtype}

\* C11 (as stated): when no handler throws, handleMessage invokes every
\* any-type handler and every handler of the message's type subscribed when it
\* was called, each exactly once, any-type handlers first, and none from the
\* Set of another type.
C11_AllSubscribedInvoked ==
    (DispatchDone /\ ~dlog.thrown) => Delivered

\* C11 (amended): the same when, in addition, no handler adds or removes a
\* subscription during the dispatch; then exactly the handlers subscribed at
\* the call are invoked.
C11_AllSubscribedInvokedUnlessChanged ==
    (DispatchDone /\ ~dlog.thrown /\ ~dlog.mutated) =>
       /\ Delivered
       /\ Len(invoked) = Len(dlog.globals) + Len(dlog.typed)

C11_Witness ==
    /\ DispatchDone /\ ~dlog.thrown /\ ~dlog.mutated
    /\ Len(dlog.globals) >= 1
    /\ Len(dlog.typed) >= 2
    /\ Len(invoked) = 3
    /\ \E t \in InTypes \ {dlog.mtype} : handlers[t].live /\ handlers[t].seq /= <<>>

\* C12: handleMessage given data that is not JSON returns with no handler
\* invoked and with the handler Sets, the pending requests, their timers and
\* their promises as they were.
C12_MalformedDropped ==
    [][HandleMalformed =>
          /\ invoked' = <<>>
          /\ ~disp'.active
          /\ UNCHANGED <<handlers, globalHandlers, pendingRequests, timers, reqs,
                         webViewRef, isReady, outbox>>]_vars

C12_Witness ==
    /\ dlog.kind = "dropped"
    /\ globalHandlers /= <<>>
    /\ \E t \in InTypes : handlers[t].live /\ Len(handlers[t].seq) = 2
    /\ pendingRequests /= {}

\* C13: send() called while webViewRef is null (never attached, or detached)
\* or its current is null injects no envelope, creates no message, and leaves
\* the pending requests, their timers and promises and the handler Sets as
\* they were; it only logs a warning.
C13_SendUnattachedDropped ==
    [][\A type \in OutTypes :
          (webViewRef /= "refView" /\ Send(NoHandler, type)) =>
             /\ UNCHANGED <<outbox, messageCounter, pendingRequests, timers, reqs,
                            handlers, globalHandlers, webViewRef, isReady>>
             /\ webViewRef \in sendWarnings']_vars

C13_Witness ==
    /\ sendWarnings = {"null", "refNull"}
    /\ webViewRef = "refNull"
    /\ pendingRequests /= {}
    /\ Len(outbox) = 1
    /\ handlers["SCENE_CAPTURED"].live /\ handlers["SCENE_CAPTURED"].seq /= <<>>

\* C14: a Set of one message type may hold several handlers, and a dispatch
\* invokes the handlers of that Set in the order of their subscriptions:
\* of two invocations from the same Set, the earlier one is of the handler
\* whose subscription was made earlier.
C14_InvokedInSubscriptionOrder ==
    \A i, j \in 1..Len(invoked) :
       (i < j /\ invoked[i].scope = invoked[j].scope /\ invoked[i].gen = invoked[j].gen
            /\ invoked[i].scope /= "global") =>
          /\ invoked[i].sub > 0
          /\ invoked[i].sub < invoked[j].sub

C14_Witness ==
    /\ DispatchDone
    /\ Len(invoked) = 2
    /\ invoked[1].scope = invoked[2].scope /\ invoked[1].scope /= "global"
    /\ invoked[1].h = <<"u", 2>> /\ invoked[2].h = <<"u", 1>>
    /\ invoked[2].sub = 3

\* C15: a getModelIndex / getSceneIndex call whose getItem found the key
\* absent returns, without error, an index with an empty collection, whatever
\* add, update, remove or clearAllData calls ran before it.
C15_AbsentKeyReadsEmptyDefault ==
    \A i \in 1..Len(procs) :
       (procs[i].op = "get" /\ procs[i].key \in IndexKeys
            /\ procs[i].pc = "done" /\ procs[i].saw = "absent") =>
          /\ procs[i].result = "ok"
          /\ procs[i].ret = <<>>

\* C16: a helper whose getItem returned text that is not valid JSON ends with
\* a StorageError of code PARSE_ERROR (not with the default value, not with
\* READ_ERROR), for getModelIndex / getSceneIndex / getSettings as for add,
\* update and remove, and it performs no write.
C16_GarbageIsParseError ==
    \A i \in 1..Len(procs) :
       procs[i].saw = "garbage" =>
          /\ procs[i].pc = "done"
          /\ procs[i].result = "PARSE_ERROR"
          /\ procs[i].ret = <<>>
          /\ procs[i].writes = 0
          /\ ~procs[i].wrote

C16_Witness ==
    /\ Len(procs) = 2
    /\ procs[1].op = "update" /\ procs[1].result = "PARSE_ERROR"
    /\ procs[2].op = "get" /\ procs[2].key = SETTINGS
    /\ procs[2].result = "PARSE_ERROR"
    /\ storage[procs[1].key] = Garbage

\* a mutation that went through: an add, a remove, or an update that found
\* its id, ended without error
Mutated(i) ==
    /\ procs[i].pc = "done"
    /\ procs[i].result = "ok"
    /\ procs[i].op \in {"add", "remove"} \/ (procs[i].op = "update" /\ procs[i].idx /= 0)

\* C17: every successful index mutation (add, update of a present id,
\* remove) has performed exactly one storage write, and every step that
\* changes a stored index is the single setItem of one helper call, which
\* stores that call's new collection together with the lastUpdated the call
\* took when it saved (or is clearAllData removing the key): the collection
\* never changes in storage while lastUpdated stays the one read.
C17_SingleWriteWithLastUpdated ==
    /\ [](\A i \in 1..Len(procs) : Mutated(i) => procs[i].writes = 1)
    /\ [][\A k \in IndexKeys :
            storage'[k] /= storage[k] =>
               \/ storage'[k] = Absent
               \/ \E i \in 1..Len(procs) :
                     /\ procs[i].key = k
                     /\ procs[i].pc = "write" /\ procs'[i].pc = "done"
                     /\ procs[i].writes = 0 /\ procs'[i].writes = 1
                     /\ storage'[k].kind = "json"
                     /\ storage'[k].items = procs[i].text.items
                     /\ storage'[k].lastUpdated = procs[i].savedAt]_vars

C17_Witness ==
    \E i \in 1..Len(procs) :
       /\ Mutated(i)
       /\ procs[i].op = "update"
       /\ procs[i].savedAt = 1
       /\ storage[procs[i].key].lastUpdated = 1
       /\ storage[procs[i].key].items[procs[i].idx] = procs[i].arg
       /\ procs[i].arg.updatedAt = 0

\* an addSceneToIndex call that succeeded and whose write is what the scene
\* index key holds
SceneAdded(i) ==
    /\ procs[i].op = "add"
    /\ procs[i].key = SCENE_INDEX
    /\ procs[i].pc = "done"
    /\ procs[i].result = "ok"
    /\ storage[SCENE_INDEX] = procs[i].text

C19_NoLostUpdate ==
    \A i, j \in 1..Len(procs) :
       (/\ i /= j
        /\ procs[i].op = "add" /\ procs[j].op = "add"
        /\ procs[i].key = procs[j].key
        /\ procs[i].arg.id /= procs[j].arg.id
        /\ procs[i].saw = "json" /\ procs[j].saw = "json"
        /\ procs[i].pc = "done" /\ procs[j].pc = "done"
        /\ procs[i].result = "ok" /\ procs[j].result = "ok"
        /\ storage[procs[i].key].kind = "json") =>
          /\ \E n \in 1..Len(storage[procs[i].key].items) :
                storage[procs[i].key].items[n] = procs[i].arg
          /\ \E n \in 1..Len(storage[procs[j].key].items) :
                storage[procs[j].key].items[n] = procs[j].arg

\* C20: under the event actions of the AR store the status moves only along
\* IDLE -> INITIALIZING, INITIALIZING -> READY, READY <-> SURFACE_DETECTED,
\* anything -> ERROR on an error, ERROR -> READY or IDLE on clearError and
\* anything -> IDLE on reset; a step never leaves READY or SURFACE_DETECTED
\* for INITIALIZING and never ends in READY or SURFACE_DETECTED with
\* isInitialized false.
C20_StatusFollowsEdges ==
    [][LET from == ar.status
           to == ar'.status
       IN /\ to \in {"READY", "SURFACE_DETECTED"} => ar'.isInitialized
          /\ \/ to = from
             \/ from = "IDLE" /\ to = "INITIALIZING"
             \/ from = "INITIALIZING" /\ to = "READY"
             \/ from = "READY" /\ to = "SURFACE_DETECTED"
             \/ from = "SURFACE_DETECTED" /\ to = "READY"
             \/ to = "ERROR" /\ ar'.error /= NULL
             \/ from = "ERROR" /\ to \in {"READY", "IDLE"} /\ ClearError
             \/ to = "IDLE" /\ Reset]_vars

\* C21: whenever the AR store holds a non-null error its status is ERROR:
\* once setError reported an error, no surface, initialization or WebView
\* event moves the status away from ERROR before clearError or reset.
C21_ErrorKeepsStatus ==
    ar.error /= NULL => ar.status = "ERROR"

\* the fields of the AR store that the placement actions do not own
OtherThanPlacement(state) ==
    [f \in (DOMAIN state) \ {"placementMode", "modelToPlace"} |-> state[f]]

\* C22: startPlacing(modelId) sets placementMode to PLACING and modelToPlace
\* to modelId, confirmPlacement() and cancelPlacement() set them to NONE and
\* null, none of the three changes another field, and in every reachable
\* state modelToPlace is non-null exactly when placementMode is PLACING.
C22_PlacementWorkflow ==
    /\ [](ar.modelToPlace /= NULL <=> ar.placementMode = "PLACING")
    /\ [][/\ \A m \in ModelIds :
                StartPlacing(m) =>
                   /\ ar'.placementMode = "PLACING"
                   /\ ar'.modelToPlace = m
                   /\ OtherThanPlacement(ar') = OtherThanPlacement(ar)
          /\ (ConfirmPlacement \/ CancelPlacement) =>
                /\ ar'.placementMode = "NONE"
                /\ ar'.modelToPlace = NULL
                /\ OtherThanPlacement(ar') = OtherThanPlacement(ar)]_vars

C22_Witness ==
    /\ ar.placementMode = "PLACING"
    /\ ar.modelToPlace = "m1"
    /\ ar.status = "SURFACE_DETECTED"
    /\ ar.isInitialized
    /\ lastQuery = [fn |-> "canPlaceObject", result |-> FALSE]

\* C23: a scan session has status PROCESSING only with at least
\* MIN_SCAN_PHOTOS photos, whatever startScan / updateScan calls were made,
\* and END_SCAN is sent to the engine only for a session holding that many.
C23_ProcessingNeedsPhotos ==
    [][/\ scene'.scanSession.status = "PROCESSING" =>
             scene'.scanSession.photos >= MIN_SCAN_PHOTOS
       /\ (Len(outbox') > Len(outbox) /\ outbox'[Len(outbox')].type = "END_SCAN") =>
             /\ scene.scanSession /= NoScan
             /\ scene.scanSession.photos >= MIN_SCAN_PHOTOS]_vars

\* the entries of a model collection whose isBundled flag is true
BundledOf(items) == {items[n] : n \in {m \in 1..Len(items) : items[m].isBundled}}
InCollection(items) == {items[n] : n \in 1..Len(items)}

\* C24: a model whose isBundled flag is true stays in the collection as it
\* is: no removeModel / updateModel step of the model store and no write of
\* removeModelFromIndex / updateModelInIndex to the stored index drops or
\* changes it.
C24_BundledModelsKept ==
    [][/\ (\E id \in ItemIds : RemoveModel(id) \/ UpdateModel(Item(id, "new", 0))) =>
             BundledOf(modelStore.models) \subseteq InCollection(modelStore'.models)
       /\ (\E i \in 1..Len(procs) :
              procs[i].op \in {"update", "remove"} /\ WriteDone(i)) =>
             BundledOf(storage[MODEL_INDEX].items)
                \subseteq InCollection(storage'[MODEL_INDEX].items)]_vars

\* C30: when saveScene(name) has just returned a scene s, the saved-scenes
\* list contains s (getSceneById(s.id) is s), currentScene is s and isDirty
\* is false, and s has the id and createdAt of the previous current scene
\* when there was one.
C30_SavedSceneIsKept ==
    [][(\E name \in SceneNames : SaveScene(name)) =>
          LET s == scene'.returned
          IN /\ GetSceneById(scene', s.id) = s
             /\ scene'.currentScene = s
             /\ ~scene'.isDirty
             /\ scene.currentScene /= NoScene =>
                   /\ s.id = scene.currentScene.id
                   /\ s.createdAt = scene.currentScene.createdAt]_vars

\* C25: the model store never holds more than MAX_MODELS models and the
\* scene store never more than MAX_SCENES saved scenes; an addModel made
\* while canAddModel() is false and a saveScene of a new scene made while
\* canSaveScene() is false add no entry.
C25_StoresEnforceLimits ==
    [][/\ Len(modelStore'.models) <= MAX_MODELS
       /\ Len(scene'.savedScenes) <= MAX_SCENES
       /\ (AddModel(NewModel) /\ ~CanAddModel(modelStore)) =>
             modelStore'.models = modelStore.models
       /\ ((\E name \in SceneNames : SaveScene(name)) /\ ~CanSaveScene(scene)) =>
             scene'.savedScenes = scene.savedScenes]_vars

\* C26: once a sendAndWait call has settled - by a matching response, by its
\* timeout or by detach() - the one-time handler it registered is no longer
\* in the Set of handlers of the response type.
C26_SettledRequestLeavesNoHandler ==
    \A r \in 1..Len(reqs) :
       (reqs[r].attached /\ reqs[r].log /= <<>>) =>
          ~(/\ handlers[reqs[r].rtype].live
            /\ Has(handlers[reqs[r].rtype].seq, OnceHandler(r)))

\* C28: when a subscriber throws while handleMessage dispatches a message
\* (and no subscription is added or removed meanwhile), every any-type
\* handler and every handler of the message's type subscribed at the call is
\* still invoked with that message.
C28_ThrowDoesNotStopDelivery ==
    (DispatchDone /\ dlog.thrown /\ ~dlog.mutated) =>
       /\ \A i \in 1..Len(dlog.globals) : InvokedTimes(dlog.globals[i], "global") >= 1
       /\ \A i \in 1..Len(dlog.typed) : InvokedTimes(dlog.typed[i], dlog.mtype) >= 1

\* the sendAndWait calls that were pending when the message now dispatched
\* arrived and expect its type
AwaitedThis == {r \in dlog.waiting : reqs[r].rtype = dlog.mtype}
ResolvedByThis(r) == reqs[r].log = <<Settled("resolved", inSerial, dlog.mtype)>>

WriteFailed(i) ==
    /\ procs[i].op \in {"add", "remove"}
    /\ procs[i].pc = "done"
    /\ procs[i].writes = 0
    /\ procs[i].text /= Absent

\* C29: when setItem fails in add*ToIndex / remove*FromIndex the call ends
\* with WRITE_ERROR, and a getModelIndex / getSceneIndex that reads after the
\* failure and finds the key as the failed call found it (the stored value,
\* or the key absent) returns the collection the failed call read.
C29_FailedWriteChangesNothing ==
    [][/\ \A i \in 1..Len(procs) :
             (procs[i].pc = "write" /\ WriteFails(i)) =>
                procs'[i].result = "WRITE_ERROR" /\ storage' = storage
       /\ \A i, j \in 1..Len(procs) :
             (/\ WriteFailed(i)
              /\ procs[j].op = "get" /\ procs[j].key = procs[i].key
              /\ procs[j].pc = "read"
              /\ procs'[j].pc = "done" /\ procs'[j].result = "ok"
              /\ procs'[j].saw = procs[i].saw) =>
                Len(procs'[j].ret) = procs[i].seen]_vars

\* C31: whenever the ready getter returns true a WebView is attached: attach()
\* was called with a ref whose current is non-null and detach() has not been
\* called since.
C31_ReadyOnlyWhileAttached == ReadyGetter(St) => Attached(St)

\* the ids of a collection are pairwise distinct
UniqueIds(items) ==
    \A m, n \in 1..Len(items) : items[m].id = items[n].id => m = n

\* C32: the stored model index and the stored scene index never hold two
\* entries with the same id, whatever add, update and remove calls were made.
C32_StoredIdsAreUnique ==
    \A key \in IndexKeys :
        storage[key].kind = "json" => UniqueIds(storage[key].items)

\* C33: updateScan applied while no scan session is active (such as a progress
\* update arriving after endScan) leaves scanSession null and changes no other
\* field of the scene store.
C33_LateScanUpdateIsNoOp ==
    [][\A updates \in ScanUpdates :
          (scene.scanSession = NoScan /\ UpdateScanCall(updates)) =>
             scene'.scanSession = NoScan /\ scene' = scene]_vars

\* the last call seen was an updateScan made with no session active, and the
\* store holds a loaded scene
C33_Witness ==
    /\ lastQuery = [fn |-> "updateScan", result |-> FALSE]
    /\ scene.scanSession = NoScan
    /\ scene.placedObjects /= <<>>

\* C34: sendAndWait called while no WebView is attached (webViewRef null, or
\* its current null) rejects at once with 'WebView not attached', delivers no
\* envelope, and registers no pending request, no timer and no response
\* handler.
C34_SendAndWaitUnattachedRejects ==
    [][(webViewRef /= "refView"
          /\ SendAndWait(NoHandler, "CAPTURE_SCENE", "SCENE_CAPTURED")) =>
             /\ Len(reqs') = Len(reqs) + 1
             /\ reqs'[Len(reqs')].log = <<Settled("notAttached", 0, "none")>>
             /\ \A r \in 1..Len(reqs) : reqs'[r] = reqs[r]
             /\ UNCHANGED <<outbox, messageCounter, pendingRequests, timers,
                            handlers, globalHandlers, subs>>]_vars

\* a request rejected for want of a WebView, made while an earlier request
\* was pending with its envelope sent and its response handler subscribed
C34_Witness ==
    /\ Len(reqs) = 2
    /\ reqs[1].log = <<>>
    /\ reqs[2].log = <<Settled("notAttached", 0, "none")>>
    /\ webViewRef = "refNull"
    /\ pendingRequests /= {} /\ timers = {1}
    /\ Len(outbox) = 1
    /\ Len(handlers["SCENE_CAPTURED"].seq) = 1

====
